---- MODULE Spec2Model ----
(***************************************************************************)
(* rflect.dom.ViewportSizeMonitor (src/unnamed/part_000) as a state        *)
(* machine: the per-window registry, the monitors with their fields, the   *)
(* host's listener table and interval timers, the goog.math.Size object a  *)
(* caller of getSize() holds, and the host's live viewport sizes.          *)
(* The index and id readers of rflect.string (src/src/string/string.js)    *)
(* are operators on character sequences, applied under StringSpec.         *)
(***************************************************************************)
EXTENDS Integers, Sequences, FiniteSets, TLC

\* ---------------------------------------------------------------- bounds
\* Monitors ever constructed (instance ids 1..MaxInst).
MaxInst == 2
\* dispatchEvent(RESIZE) calls counted, over all monitors.
MaxEvents == 2
\* checkForSizeChange calls followed below one dispatchEvent(RESIZE), each
\* made by the subscriber's handler of the call above it.
MaxDepth == 2

\* -------------------------------------------------------------- constants
\* JavaScript null, for instances, listener keys and timer handles.
Null == 0
\* JavaScript null, for a goog.math.Size reference.
NoSize == << >>
\* An absent window argument or a released window reference.
NoWindow == "null"
\* The windows of the page: the top-level one and one nested frame.
Windows == {"top", "frame"}
\* The global `window` the code runs in.
AmbientWindow == "top"
\* Arguments a caller may pass as opt_window.
WindowArgs == Windows \cup {NoWindow}
\* goog.userAgent of the browsers the page may run in.
UserAgents ==
  { [WEBKIT |-> TRUE,  WINDOWS |-> TRUE, OPERA |-> FALSE],
    [WEBKIT |-> FALSE, WINDOWS |-> TRUE, OPERA |-> TRUE] }
\* The goog.math.Size values, <<width, height>>, a viewport takes: pairwise
\* they differ in both dimensions, in width only and in height only.
Size == { <<1024, 768>>, <<800, 600>>, <<1024, 600>> }
\* The size every window has when the page loads.
InitialSize == <<1024, 768>>
InstId == 1..MaxInst
\* What getSize() hands its caller when the monitor stores no size.
NoObject == [shared |-> FALSE, val |-> NoSize]
\* What the handler a subscriber listens to RESIZE with does when called:
\* nothing with the monitor, or getSize() on it, or checkForSizeChange() on
\* it (as does a handler that fires a resize event of the window).
Handlers == {"nothing", "getSize", "checkForSizeChange"}

VARIABLES
  ua,                  \* goog.userAgent
  hostSize,            \* the live viewport size of each window
  windowInstanceMap_,  \* window -> instance id, Null when no entry
  monitors,            \* the monitors constructed so far, by instance id
  listeners,           \* window -> keys of its native resize listeners
  intervals,           \* handles of the running interval timers
  held,                \* the object getSize() returned, while its caller keeps it:
                       \* its value, and whether it is the very object the monitor stores
  last,                \* the operation that ran last
  hist                 \* window -> the last registry call made for it, the
                       \* instance it returned, and the instances
                       \* getInstanceForWindow constructed for the window
                       \* that nobody has disposed

vars == <<ua, hostSize, windowInstanceMap_, monitors, listeners, intervals,
          held, last, hist>>

\* ---------------------------------------------------------------- helpers
\* opt_window || window
OrWindow(opt_window) ==
  IF opt_window = NoWindow THEN AmbientWindow ELSE opt_window

\* window.self != window.top
IsNested(w) == w = "frame"

\* A goog.dom.getViewportSize that takes its argument as it is.
ViewportWindow_NoDefault(opt_window) == opt_window

\* The window goog.dom.getViewportSize(opt_window) measures: opt_window ||
\* window.
ViewportWindow(opt_window) == OrWindow(opt_window)

\* goog.dom.getViewportSize(opt_window): the live size of the given window,
\* of the ambient window when the argument is null.
getViewportSize(opt_window) == hostSize[ViewportWindow(opt_window)]

\* goog.dom.getViewportSize(opt_window) throws a TypeError: it reads the
\* document of no window.
MeasureThrows(opt_window) == ViewportWindow(opt_window) \notin Windows

\* Size.equals that takes only the same object (or two nulls) as equal.
SizeEquals_SameObjectOnly(a, b) == a = NoSize /\ b = NoSize

\* Size.equals that compares the widths only.
SizeEquals_WidthOnly(a, b) ==
  IF a = NoSize /\ b = NoSize THEN TRUE
  ELSE IF a = NoSize \/ b = NoSize THEN FALSE
  ELSE a[1] = b[1]

\* goog.math.Size.equals(a, b): the same object or both null, or neither
\* null and the same width and the same height.  A measurement is a new
\* object, so it is the same object as no stored one.
SizeEquals(a, b) ==
  IF a = NoSize /\ b = NoSize THEN TRUE
  ELSE IF a = NoSize \/ b = NoSize THEN FALSE
  ELSE a[1] = b[1] /\ a[2] = b[2]

\* A clone that hands out the object itself.
clone_SameObject(size) == [shared |-> TRUE, val |-> size]

\* goog.math.Size.prototype.clone: a new object with the same width and
\* height, shared with nobody.
clone(size) == [shared |-> FALSE, val |-> size]

\* A polling test with || in place of the first &&.
isPollingRequired_EitherFlag(w) ==
  (ua.WEBKIT \/ ua.WINDOWS) \/ (ua.OPERA /\ IsNested(w))

\* isPollingRequired_ of a monitor on window w.
isPollingRequired_(w) ==
  (ua.WEBKIT /\ ua.WINDOWS) \/ (ua.OPERA /\ IsNested(w))

\* A record of the operation that ran: its name, the instance it acted on or
\* returned, the window it was called for, and its outcome; of a check that
\* dispatched, also the size getSize() gave the subscriber's handler and the
\* number of checkForSizeChange calls made below the dispatch.
Op(op, inst, win, outcome) ==
  [op |-> op, inst |-> inst, win |-> win, outcome |-> outcome,
   seen |-> NoSize, nested |-> 0]

Init ==
  /\ ua \in UserAgents
  /\ hostSize = [w \in Windows |-> InitialSize]
  /\ windowInstanceMap_ = [w \in Windows |-> Null]
  /\ monitors = << >>
  /\ listeners = [w \in Windows |-> {}]
  /\ intervals = {}
  /\ held = NoObject
  /\ last = Op("init", Null, NoWindow, "")
  /\ hist = [w \in Windows |-> [call |-> "none", inst |-> Null, undisposed |-> {}]]

\* The host changes the live viewport size of window w.
HostResize(w, s) ==
  /\ s # hostSize[w]
  /\ hostSize' = [hostSize EXCEPT ![w] = s]
  /\ last' = Op("hostResize", Null, NoWindow, "")
  /\ held' = NoObject
  /\ UNCHANGED <<ua, windowInstanceMap_, monitors, listeners, intervals, hist>>

\* The fields of a monitor just constructed on window w with instance id id
\* and initial measurement size.  The listener key and the timer handle are
\* the instance id, which no other monitor uses.
NewMonitor(w, id, size) ==
  [ window                 |-> w,
    listenerKey_           |-> id,
    size                   |-> size,
    windowSizePollInterval |-> IF isPollingRequired_(w) THEN id ELSE Null,
    disposed_              |-> FALSE,
    dispatched             |-> 0,     \* dispatchEvent(RESIZE) calls
    differing              |-> 0,     \* checks that measured another size than stored
    unlistens              |-> 0,     \* goog.events.unlistenByKey calls
    clears                 |-> 0 ]    \* window.clearInterval calls

\* new rflect.dom.ViewportSizeMonitor(opt_window): what it does to the
\* monitors, the listener table and the timers.
Constructor(opt_window) ==
  LET w  == OrWindow(opt_window)
      id == Len(monitors) + 1
  IN  /\ Len(monitors) < MaxInst
      /\ monitors' = Append(monitors, NewMonitor(w, id, getViewportSize(w)))
      /\ listeners' = [listeners EXCEPT ![w] = @ \cup {id}]
      /\ intervals' = IF isPollingRequired_(w) THEN intervals \cup {id}
                      ELSE intervals

\* A caller constructs a monitor itself, outside the registry.
New(opt_window) ==
  /\ Constructor(opt_window)
  /\ last' = Op("new", Len(monitors) + 1, OrWindow(opt_window), "new")
  /\ held' = NoObject
  /\ UNCHANGED <<ua, hostSize, windowInstanceMap_, hist>>

\* A getInstanceForWindow that constructs a monitor on every call.
GetInstanceForWindow_AlwaysNew(opt_window) ==
  LET uid == OrWindow(opt_window)
      ret == Len(monitors) + 1
  IN  /\ Constructor(uid)
      /\ windowInstanceMap_' = [windowInstanceMap_ EXCEPT ![uid] = ret]
      /\ last' = Op("getInstanceForWindow", ret, uid,
                    IF hist[uid].call = "remove" THEN "renewed" ELSE "new")
      /\ hist' = [hist EXCEPT ![uid] = [call |-> "get", inst |-> ret,
                                        undisposed |-> @.undisposed \cup {ret}]]
      /\ held' = NoObject
      /\ UNCHANGED <<ua, hostSize>>

\* rflect.dom.ViewportSizeMonitor.getInstanceForWindow(opt_window)
GetInstanceForWindow(opt_window) ==
  LET currentWindow == OrWindow(opt_window)
      uid           == currentWindow
      found         == windowInstanceMap_[uid]
      ret           == IF found # Null THEN found ELSE Len(monitors) + 1
  IN  /\ IF found # Null
           THEN UNCHANGED <<monitors, listeners, intervals>>
           ELSE Constructor(currentWindow)
      /\ windowInstanceMap_' = [windowInstanceMap_ EXCEPT ![uid] = ret]
      /\ last' = Op("getInstanceForWindow", ret, uid,
                    IF found # Null THEN "found"
                    ELSE IF hist[uid].call = "remove" THEN "renewed" ELSE "new")
      /\ hist' = [hist EXCEPT ![uid] =
                    [call |-> "get", inst |-> ret,
                     undisposed |-> IF found # Null THEN @.undisposed ELSE @.undisposed \cup {ret}]]
      /\ held' = NoObject
      /\ UNCHANGED <<ua, hostSize>>

\* A disposeInternal that unlistens but keeps the listener key.
disposeInternal_KeepsKey(mon) ==
  [mon EXCEPT
     !.unlistens              = IF mon.listenerKey_ # Null THEN @ + 1 ELSE @,
     !.windowSizePollInterval = Null,
     !.clears                 = IF mon.windowSizePollInterval # Null THEN @ + 1 ELSE @,
     !.window                 = NoWindow,
     !.size                   = NoSize]

\* disposeInternal applied to the fields of one monitor.
disposeInternal(mon) ==
  [mon EXCEPT
     !.listenerKey_           = Null,
     !.unlistens              = IF mon.listenerKey_ # Null THEN @ + 1 ELSE @,
     !.windowSizePollInterval = Null,
     !.clears                 = IF mon.windowSizePollInterval # Null THEN @ + 1 ELSE @,
     !.window                 = NoWindow,
     !.size                   = NoSize]

\* A dispose that removes the resize listeners of every window.
DisposeMonitor_UnlistensAll(m) ==
  IF monitors[m].disposed_
    THEN UNCHANGED <<monitors, listeners, intervals>>
    ELSE LET mon == monitors[m] IN
      /\ monitors' = [monitors EXCEPT ![m] = [disposeInternal(mon) EXCEPT !.disposed_ = TRUE]]
      /\ listeners' = [w \in Windows |-> {}]
      /\ intervals' = IF mon.windowSizePollInterval # Null
                        THEN intervals \ {mon.windowSizePollInterval}
                        ELSE intervals

\* goog.Disposable.prototype.dispose on monitor m: disposeInternal runs on
\* the first call only.  What it does to the monitors, the listener table
\* and the timers.
DisposeMonitor(m) ==
  IF monitors[m].disposed_
    THEN UNCHANGED <<monitors, listeners, intervals>>
    ELSE LET mon == monitors[m] IN
      /\ monitors' = [monitors EXCEPT ![m] = [disposeInternal(mon) EXCEPT !.disposed_ = TRUE]]
      /\ listeners' = IF mon.listenerKey_ # Null
                        THEN [w \in Windows |-> listeners[w] \ {mon.listenerKey_}]
                        ELSE listeners
      /\ intervals' = IF mon.windowSizePollInterval # Null
                        THEN intervals \ {mon.windowSizePollInterval}
                        ELSE intervals

\* A caller disposes monitor m directly.
Dispose(m) ==
  /\ m \in 1..Len(monitors)
  /\ DisposeMonitor(m)
  /\ last' = Op("dispose", m, NoWindow,
                IF monitors[m].disposed_ THEN "again" ELSE "first")
  /\ hist' = [w \in Windows |-> [hist[w] EXCEPT !.undisposed = @ \ {m}]]
  /\ held' = NoObject
  /\ UNCHANGED <<ua, hostSize, windowInstanceMap_>>

\* A removeInstanceForWindow that disposes the monitor and keeps its entry.
RemoveInstanceForWindow_KeepsEntry(opt_window) ==
  LET uid   == OrWindow(opt_window)
      found == windowInstanceMap_[uid]
  IN  /\ IF found # Null
           THEN DisposeMonitor(found)
           ELSE UNCHANGED <<monitors, listeners, intervals>>
      /\ last' = Op("removeInstanceForWindow", found, uid,
                    IF found # Null THEN "removed" ELSE "absent")
      /\ hist' = [hist EXCEPT ![uid] = [call |-> "remove", inst |-> Null,
                                        undisposed |-> @.undisposed \ {found}]]
      /\ held' = NoObject
      /\ UNCHANGED <<ua, hostSize, windowInstanceMap_>>

\* A removeInstanceForWindow that deletes the entry and disposes nothing.
RemoveInstanceForWindow_NoDispose(opt_window) ==
  LET uid   == OrWindow(opt_window)
      found == windowInstanceMap_[uid]
  IN  /\ windowInstanceMap_' = [windowInstanceMap_ EXCEPT ![uid] = Null]
      /\ last' = Op("removeInstanceForWindow", found, uid,
                    IF found # Null THEN "removed" ELSE "absent")
      /\ hist' = [hist EXCEPT ![uid] = [call |-> "remove", inst |-> Null,
                                        undisposed |-> @.undisposed]]
      /\ held' = NoObject
      /\ UNCHANGED <<ua, hostSize, monitors, listeners, intervals>>

\* rflect.dom.ViewportSizeMonitor.removeInstanceForWindow(opt_window)
RemoveInstanceForWindow(opt_window) ==
  LET uid   == OrWindow(opt_window)
      found == windowInstanceMap_[uid]
  IN  /\ IF found # Null
           THEN DisposeMonitor(found)
           ELSE UNCHANGED <<monitors, listeners, intervals>>
      /\ windowInstanceMap_' = [windowInstanceMap_ EXCEPT ![uid] = Null]
      /\ last' = Op("removeInstanceForWindow", found, uid,
                    IF found # Null THEN "removed" ELSE "absent")
      /\ hist' = [hist EXCEPT ![uid] = [call |-> "remove", inst |-> Null,
                                        undisposed |-> @.undisposed \ {found}]]
      /\ held' = NoObject
      /\ UNCHANGED <<ua, hostSize>>

\* getSize(): what the caller receives from a monitor with fields mon.
getSize(mon) == IF mon.size # NoSize THEN clone(mon.size) ELSE NoObject

\* A caller calls getSize() on monitor m and keeps the result until another
\* operation runs.
GetSize(m) ==
  /\ m \in 1..Len(monitors)
  /\ held' = getSize(monitors[m])
  /\ last' = Op("getSize", m, NoWindow, "")
  /\ UNCHANGED <<ua, hostSize, windowInstanceMap_, monitors, listeners,
                 intervals, hist>>

\* The caller writes width and height of the Size object getSize() on
\* monitor last.inst gave it; an object shared with the monitor changes for
\* the monitor too.
MutateHeld(s) ==
  /\ last.op = "getSize"
  /\ held.val # NoSize
  /\ s # held.val
  /\ held' = [held EXCEPT !.val = s]
  /\ monitors' = IF held.shared
                   THEN [monitors EXCEPT ![last.inst].size = s]
                   ELSE monitors
  /\ last' = Op("mutate", last.inst, NoWindow, "")
  /\ UNCHANGED <<ua, hostSize, windowInstanceMap_, listeners, intervals, hist>>

\* Whether a check of monitor m would now measure something other than what
\* the monitor stores.
Differs(m) ==
  /\ ~MeasureThrows(monitors[m].window)
  /\ getViewportSize(monitors[m].window) # monitors[m].size
\* How a check of monitor m ends: with the error of the measurement, or
\* having measured another size than the stored one, or the same.
Outcome(m) ==
  IF MeasureThrows(monitors[m].window) THEN "threw"
  ELSE IF Differs(m) THEN "differed" ELSE "same"

\* dispatchEvent(RESIZE) calls of the first n monitors.
RECURSIVE Dispatched(_)
Dispatched(n) == IF n = 0 THEN 0 ELSE monitors[n].dispatched + Dispatched(n - 1)

\* The event dispatchEvent(goog.events.EventType.RESIZE) hands the handlers
\* of monitor m: its type and its target.
ResizeEvent(m) == [type |-> "resize", target |-> m]

\* A checkForSizeChange that calls dispatchEvent before it stores the size.
AtDispatch_BeforeStore(mon, size) == mon

\* The fields of a monitor when checkForSizeChange calls dispatchEvent, its
\* fields at the call of checkForSizeChange being mon and its measurement
\* size: this.size = size has run.
AtDispatch(mon, size) == [mon EXCEPT !.size = size]

\* checkForSizeChange() run on a monitor with fields mon, as call number
\* depth below a dispatchEvent, h being what the subscriber's handler does:
\* the fields it leaves, the size getSize() gave the handler, and the
\* number of checkForSizeChange calls below the first dispatchEvent.  A
\* disposed monitor has no subscriber: goog.events.EventTarget's
\* disposeInternal removed them.  Calls below MaxDepth are not followed.
RECURSIVE check(_, _, _)
check(mon, h, depth) ==
  LET size  == getViewportSize(mon.window)
      quiet == [mon |-> mon, seen |-> NoSize, nested |-> depth]
  IN  IF MeasureThrows(mon.window) THEN quiet
      ELSE IF SizeEquals(size, mon.size) THEN quiet
      ELSE LET at == [AtDispatch(mon, size) EXCEPT !.dispatched = @ + 1]
           IN  IF mon.disposed_ \/ h = "nothing"
                 THEN [mon |-> at, seen |-> NoSize, nested |-> depth]
               ELSE IF h = "getSize"
                 THEN [mon |-> at, seen |-> getSize(at).val, nested |-> depth]
               ELSE IF depth < MaxDepth
                 THEN check(at, h, depth + 1)
               ELSE [mon |-> at, seen |-> NoSize, nested |-> depth]

\* A checkForSizeChange that dispatches and keeps the stored size.
checkForSizeChange_NoStore(mon, h) ==
  LET size == getViewportSize(mon.window)
  IN  IF MeasureThrows(mon.window) \/ SizeEquals(size, mon.size)
        THEN [mon |-> mon, seen |-> NoSize, nested |-> 0]
        ELSE [mon    |-> [mon EXCEPT !.dispatched = @ + 1],
              seen   |-> IF h = "getSize" /\ ~mon.disposed_
                           THEN getSize(mon).val ELSE NoSize,
              nested |-> 0]

\* checkForSizeChange() called on a monitor with fields mon, with h what the
\* subscriber's handler does in a dispatch.
checkForSizeChange(mon, h) == check(mon, h, 0)

\* A check of monitor m runs as operation op.  Dispatches are counted up to
\* MaxEvents; what the handler does is an input of the checks that call
\* one, "nothing" that of the others.
Check(op, m, h) ==
  LET mon == monitors[m]
      r   == checkForSizeChange(
               [mon EXCEPT !.differing = IF Differs(m) THEN @ + 1 ELSE @], h)
  IN  /\ Dispatched(Len(monitors)) < MaxEvents
      /\ h # "nothing" => Differs(m) /\ ~mon.disposed_
      /\ monitors' = [monitors EXCEPT ![m] = r.mon]
      /\ last' = [Op(op, m, NoWindow, Outcome(m)) EXCEPT
                    !.seen = r.seen, !.nested = r.nested]
      /\ held' = NoObject
      /\ UNCHANGED <<ua, hostSize, windowInstanceMap_, listeners, intervals, hist>>

\* The host delivers a native resize event of window w to the listener with
\* key k: handleResize_.
HandleResize(w, k, h) ==
  /\ k \in listeners[w]
  /\ Check("handleResize_", k, h)

\* The interval timer with handle t fires: the bound checkForSizeChange.
PollTick(t, h) ==
  /\ t \in intervals
  /\ Check("pollTick", t, h)

\* checkForSizeChange called on monitor m by code that holds the instance
\* (a subclass, or a callback bound to it before it was disposed).
CheckForSizeChange(m, h) ==
  /\ m \in 1..Len(monitors)
  /\ Check("checkForSizeChange", m, h)

Next ==
  \/ \E w \in Windows, s \in Size : HostResize(w, s)
  \/ \E o \in WindowArgs : New(o)
  \/ \E o \in WindowArgs : GetInstanceForWindow(o)
  \/ \E o \in WindowArgs : RemoveInstanceForWindow(o)
  \/ \E m \in InstId : Dispose(m)
  \/ \E m \in InstId : GetSize(m)
  \/ \E s \in Size : MutateHeld(s)
  \/ \E w \in Windows, k \in InstId : HandleResize(w, k, "nothing")
  \/ \E t \in InstId : PollTick(t, "nothing")
  \/ \E m \in InstId : CheckForSizeChange(m, "nothing")

Spec == Init /\ [][Next]_vars

\* The registry's monitors with subscribers: the host resizes the windows,
\* callers use the registry, and the checks dispatch to a subscriber whose
\* handler does any of Handlers.
DispatchNext ==
  \/ \E w \in Windows, s \in Size : HostResize(w, s)
  \/ \E o \in WindowArgs : GetInstanceForWindow(o)
  \/ \E o \in WindowArgs : RemoveInstanceForWindow(o)
  \/ \E w \in Windows, k \in InstId, h \in Handlers : HandleResize(w, k, h)
  \/ \E t \in InstId, h \in Handlers : PollTick(t, h)
  \/ \E m \in InstId, h \in Handlers : CheckForSizeChange(m, h)

DispatchSpec == Init /\ [][DispatchNext]_vars

\* The page under a host that never changes a viewport size: the windows
\* have any sizes when the page loads, and keep them.
SteadyInit ==
  /\ ua \in UserAgents
  /\ hostSize \in [Windows -> Size]
  /\ windowInstanceMap_ = [w \in Windows |-> Null]
  /\ monitors = << >>
  /\ listeners = [w \in Windows |-> {}]
  /\ intervals = {}
  /\ held = NoObject
  /\ last = Op("init", Null, NoWindow, "")
  /\ hist = [w \in Windows |-> [call |-> "none", inst |-> Null, undisposed |-> {}]]

SteadyNext ==
  \/ \E o \in WindowArgs : New(o)
  \/ \E o \in WindowArgs : GetInstanceForWindow(o)
  \/ \E o \in WindowArgs : RemoveInstanceForWindow(o)
  \/ \E m \in InstId : Dispose(m)
  \/ \E m \in InstId : GetSize(m)
  \/ \E s \in Size : MutateHeld(s)
  \/ \E w \in Windows, k \in InstId : HandleResize(w, k, "nothing")
  \/ \E t \in InstId : PollTick(t, "nothing")
  \/ \E m \in InstId : CheckForSizeChange(m, "nothing")

SteadySpec == SteadyInit /\ [][SteadyNext]_vars

\* --------------------------------------------------------- rflect.string
\* The functions of src/src/string/string.js that read an index or an id out
\* of a string.  A string is the sequence of its characters.

\* Longest string, longest prefix and largest opt_base passed.
MaxLen == 4
MaxPrefix == 2
MaxBase == 2
\* opt_base left out by the caller.
Omitted == 0
\* The number NaN; every number read from digits is 0 or more.
NaN == -1
\* RegExp.prototype.exec returning null; a match of these patterns has a
\* digit.
NoMatch == << >>

Digits == {"0", "1"}
\* The characters of the strings: a letter, the digits, and the dot, which
\* in a pattern matches every character.
Chars == {"a", "."} \cup Digits
StringsUpTo(n) == UNION {[1..k -> Chars] : k \in 0..n}
Strings == StringsUpTo(MaxLen)
Prefixes == StringsUpTo(MaxPrefix)
Bases == {Omitted} \cup 1..MaxBase

DigitValue(c) == IF c = "0" THEN 0 ELSE 1

\* Unary plus on a string of digits.
RECURSIVE ToNumber(_)
ToNumber(d) ==
  IF d = << >> THEN 0
  ELSE 10 * ToNumber(SubSeq(d, 1, Len(d) - 1)) + DigitValue(d[Len(d)])

\* String.prototype.substring(from), from counted from 0.
Substring(str, from) == SubSeq(str, from + 1, Len(str))

\* The digits of str from position i on, up to the first character that is
\* no digit.
RECURSIVE DigitRun(_, _)
DigitRun(str, i) ==
  IF i > Len(str) \/ str[i] \notin Digits THEN << >>
  ELSE <<str[i]>> \o DigitRun(str, i + 1)

\* Whether character c matches the pattern character pc.
Matches(pc, c) == pc = "." \/ pc = c

\* Whether the pattern pat followed by \d+ matches str at position i.
MatchesAt(pat, str, i) ==
  /\ i + Len(pat) <= Len(str)
  /\ \A k \in 1..Len(pat) : Matches(pat[k], str[i + k - 1])
  /\ str[i + Len(pat)] \in Digits

\* new RegExp(pat + '\\d' + quantifier).exec(str)[0], the quantifier being
\* {1,max}, or + when max is Omitted: the leftmost match, with as many
\* digits as the quantifier takes.
Exec(pat, max, str) ==
  LET starts == {i \in 1..Len(str) : MatchesAt(pat, str, i)}
  IN  IF starts = {} THEN NoMatch
      ELSE LET i   == CHOOSE j \in starts : \A k \in starts : j <= k
               run == DigitRun(str, i + Len(pat))
               n   == IF max = Omitted \/ Len(run) <= max THEN Len(run) ELSE max
           IN  SubSeq(str, i, i + Len(pat) + n - 1)

\* rflect.string.getNumericIndex(aId, opt_base)
getNumericIndex(aId, opt_base) ==
  LET matches == Exec(<< >>, opt_base, aId)
  IN  IF matches # NoMatch THEN ToNumber(matches) ELSE NaN

\* rflect.string.get2DigitIndex(aId)
get2DigitIndex(aId) == getNumericIndex(aId, 2)

\* rflect.string.getNumericIndexWithoutPrefix(aStr, aPrefix)
getNumericIndexWithoutPrefix(aStr, aPrefix) ==
  LET matches == Exec(aPrefix, Omitted, aStr)
  IN  IF matches # NoMatch
        THEN ToNumber(Substring(matches, Len(aPrefix)))
        ELSE NaN

\* rflect.string.getIdWithoutPrefix(aStr, aPrefix)
getIdWithoutPrefix(aStr, aPrefix) == Substring(aStr, Len(aPrefix))

\* A record of a call of one of the functions: the string and the other
\* argument it was given, and what it returned; before the call, of the
\* arguments a caller has at hand.
StringOp(op, str, arg, result) ==
  [op |-> op, str |-> str, arg |-> arg, result |-> result]

\* A caller with an id and a base, or with a string and a prefix, on a page
\* without monitors.
StringInit ==
  /\ ua \in UserAgents
  /\ hostSize = [w \in Windows |-> InitialSize]
  /\ windowInstanceMap_ = [w \in Windows |-> Null]
  /\ monitors = << >>
  /\ listeners = [w \in Windows |-> {}]
  /\ intervals = {}
  /\ held = NoObject
  /\ hist = [w \in Windows |-> [call |-> "none", inst |-> Null, undisposed |-> {}]]
  /\ \/ \E id \in Strings, b \in Bases :
          last = StringOp("id and base", id, b, NaN)
     \/ \E str \in Strings, pre \in Prefixes :
          last = StringOp("string and prefix", str, pre, NaN)

\* A call of a string function changes nothing of the monitors.
Called(op, str, arg, result) ==
  /\ last' = StringOp(op, str, arg, result)
  /\ UNCHANGED <<ua, hostSize, windowInstanceMap_, monitors, listeners,
                 intervals, held, hist>>

GetNumericIndex ==
  /\ last.op = "id and base"
  /\ Called("getNumericIndex", last.str, last.arg,
            getNumericIndex(last.str, last.arg))

Get2DigitIndex ==
  /\ last.op = "id and base"
  /\ Called("get2DigitIndex", last.str, 2, get2DigitIndex(last.str))

GetNumericIndexWithoutPrefix ==
  /\ last.op = "string and prefix"
  /\ Called("getNumericIndexWithoutPrefix", last.str, last.arg,
            getNumericIndexWithoutPrefix(last.str, last.arg))

GetIdWithoutPrefix ==
  /\ last.op = "string and prefix"
  /\ Called("getIdWithoutPrefix", last.str, last.arg,
            getIdWithoutPrefix(last.str, last.arg))

StringNext ==
  \/ GetNumericIndex
  \/ Get2DigitIndex
  \/ GetNumericIndexWithoutPrefix
  \/ GetIdWithoutPrefix

StringSpec == StringInit /\ [][StringNext]_vars

\* ----------------------------------------------------------------- claims
\* The operations that run checkForSizeChange.
Checks == {"handleResize_", "pollTick", "checkForSizeChange"}
\* This step is a check of monitor m.
CheckOn(m) == last'.op \in Checks /\ last'.inst = m
\* Monitor m has not been disposed.
Active(m) == ~monitors[m].disposed_
\* The live size of the window an active monitor m watches.
Live(m) == hostSize[monitors[m].window]
\* Two sizes differ in width or in height.
Unlike(s, t) == s[1] # t[1] \/ s[2] # t[2]
Existing == 1..Len(monitors)

\* C1: a check of an active monitor that measures the stored width and
\* height dispatches no RESIZE and leaves the stored size as it is; a RESIZE
\* of an active monitor is dispatched only by a check of it whose measurement
\* differs from the stored size in width or in height.
C1_EqualMeasurementIsSilent ==
  [][\A m \in Existing : Active(m) =>
       /\ (CheckOn(m) /\ Live(m) = monitors[m].size) =>
             /\ monitors'[m].dispatched = monitors[m].dispatched
             /\ monitors'[m].size = monitors[m].size
       /\ monitors'[m].dispatched # monitors[m].dispatched =>
             CheckOn(m) /\ Unlike(Live(m), monitors[m].size)]_vars

\* C1 witness: a native resize event was handled by an active monitor whose
\* window still had the stored size, after an earlier RESIZE of the monitor.
C1_Witness ==
  /\ last.op = "handleResize_" /\ last.outcome = "same"
  /\ Active(last.inst)
  /\ monitors[last.inst].dispatched = 1

\* C2: a check of an active monitor that measures another size than the
\* stored one dispatches exactly one RESIZE, and getSize() then returns the
\* measurement until a later check measures another size; so an active
\* monitor has dispatched as many RESIZE events as it made checks that
\* measured another size than the stored one.
C2_OneNotificationPerChange ==
  /\ [](\A m \in Existing : Active(m) =>
          monitors[m].dispatched = monitors[m].differing)
  /\ [][\A m \in Existing : (Active(m) /\ ~monitors'[m].disposed_) =>
          IF CheckOn(m) /\ Unlike(Live(m), monitors[m].size)
            THEN /\ monitors'[m].dispatched = monitors[m].dispatched + 1
                 /\ getSize(monitors'[m]).val = Live(m)
            ELSE /\ monitors'[m].dispatched = monitors[m].dispatched
                 /\ getSize(monitors'[m]).val = getSize(monitors[m]).val]_vars

\* C2 witness: getSize() on an active monitor that dispatched two RESIZE
\* events returned the size of the second change.
C2_Witness ==
  /\ last.op = "getSize"
  /\ Active(last.inst)
  /\ monitors[last.inst].dispatched = 2
  /\ held.val = Live(last.inst)
  /\ held.val # InitialSize

\* C3: getInstanceForWindow called for a window for which the last registry
\* call was a getInstanceForWindow returns the instance that call returned
\* and constructs none; the instances returned for two distinct windows are
\* distinct.
C3_SameWindowSameInstance ==
  /\ [](\A w1, w2 \in Windows :
          (w1 # w2 /\ hist[w1].call = "get" /\ hist[w2].call = "get")
            => hist[w1].inst # hist[w2].inst)
  /\ [][(last'.op = "getInstanceForWindow" /\ hist[last'.win].call = "get") =>
          /\ last'.inst = hist[last'.win].inst
          /\ monitors' = monitors]_vars

\* C3 witness: getInstanceForWindow returned the instance it had returned
\* before, with both windows holding an instance.
C3_Witness ==
  /\ last.op = "getInstanceForWindow" /\ last.outcome = "found"
  /\ \A w \in Windows : hist[w].call = "get"

\* C4: the getInstanceForWindow(w) that follows removeInstanceForWindow(w)
\* returns an instance that did not exist before the call, hence not the
\* disposed one: not disposed, listening to w's resize events and holding
\* w's size as measured in the call.
C4_NewInstanceAfterRemoval ==
  [][(last'.op = "getInstanceForWindow" /\ hist[last'.win].call = "remove") =>
       LET r == last'.inst
           w == last'.win
       IN  /\ r \notin Existing
           /\ r \in 1..Len(monitors')
           /\ ~monitors'[r].disposed_
           /\ monitors'[r].window = w
           /\ monitors'[r].listenerKey_ # Null
           /\ monitors'[r].listenerKey_ \in listeners'[w]
           /\ monitors'[r].size = hostSize[w]
           /\ windowInstanceMap_'[w] = r]_vars

\* C4 witness: getInstanceForWindow constructed an instance for a window
\* whose earlier instance a removal had disposed.
C4_Witness ==
  /\ last.op = "getInstanceForWindow" /\ last.outcome = "renewed"
  /\ \E d \in Existing : d # last.inst /\ monitors[d].disposed_

\* C5: removeInstanceForWindow(w) with a monitor registered for w disposes
\* it (no listener, no timer left) and removes the entry of w; with none
\* registered it changes no registry entry and no monitor.
C5_RemoveDisposesOrNoOp ==
  [][last'.op = "removeInstanceForWindow" =>
       LET w == last'.win
           f == windowInstanceMap_[w]
       IN  /\ \A v \in Windows \ {w} : windowInstanceMap_'[v] = windowInstanceMap_[v]
           /\ \A m \in Existing \ {f} : monitors'[m] = monitors[m]
           /\ Len(monitors') = Len(monitors)
           /\ IF f # Null
                THEN /\ windowInstanceMap_'[w] = Null
                     /\ monitors'[f].disposed_
                     /\ monitors'[f].listenerKey_ = Null
                     /\ monitors'[f].windowSizePollInterval = Null
                     /\ \A v \in Windows : f \notin listeners'[v]
                     /\ f \notin intervals'
                ELSE UNCHANGED <<windowInstanceMap_, monitors, listeners, intervals>>]_vars

\* C5 witness: a removal disposed a registered monitor that had a poll timer.
C5_Witness ==
  /\ last.op = "removeInstanceForWindow" /\ last.outcome = "removed"
  /\ monitors[last.inst].clears = 1
  /\ windowInstanceMap_[last.win] = Null

\* The environments that need polling: the legacy engine on the desktop
\* system, or the one browser with the window inside a nested frame.
NeedsPolling(w) == (ua.WEBKIT /\ ua.WINDOWS) \/ (ua.OPERA /\ w = "frame")

\* C6: a monitor just constructed on a window holds the size the window has,
\* has dispatched no RESIZE, listens to the window's resize events, and has a
\* running poll timer exactly when the environment needs polling.
C6_StateAfterConstruction ==
  [][Len(monitors') = Len(monitors) + 1 =>
       LET id  == Len(monitors')
           mon == monitors'[id]
           w   == last'.win
       IN  /\ last'.inst = id
           /\ mon.window = w
           /\ mon.size = hostSize[w]
           /\ mon.dispatched = 0
           /\ \A m \in Existing : monitors'[m].dispatched = monitors[m].dispatched
           /\ ~mon.disposed_
           /\ mon.listenerKey_ # Null
           /\ mon.listenerKey_ \in listeners'[w]
           /\ IF NeedsPolling(w)
                THEN mon.windowSizePollInterval # Null
                     /\ mon.windowSizePollInterval \in intervals'
                ELSE mon.windowSizePollInterval = Null
                     /\ intervals' = intervals]_vars

\* C6 witness: under the browser that polls in nested frames only, one
\* monitor was constructed on the top window (no timer) and one on the
\* frame (timer).
C6_Witness ==
  /\ ua.OPERA
  /\ last.op \in {"new", "getInstanceForWindow"}
  /\ Len(monitors) = 2
  /\ \E a, b \in Existing :
        /\ monitors[a].window = "top" /\ monitors[a].windowSizePollInterval = Null
        /\ monitors[b].window = "frame" /\ monitors[b].windowSizePollInterval # Null

\* C7: getSize() changes nothing of the registry, the monitors, the host's
\* listeners, timers and sizes, and returns the value of the stored size
\* (null when none is stored); writing to the returned object changes no
\* monitor and not what getSize() returns afterwards.
C7_GetSizeReturnsCopy ==
  [][/\ last'.op = "getSize" =>
          /\ UNCHANGED <<hostSize, windowInstanceMap_, monitors, listeners, intervals>>
          /\ held'.val = monitors[last'.inst].size
     /\ last'.op = "mutate" =>
          /\ UNCHANGED <<hostSize, windowInstanceMap_, monitors, listeners, intervals>>
          /\ \A m \in Existing : getSize(monitors'[m]).val = getSize(monitors[m]).val]_vars

\* C7 witness: the caller changed the object getSize() returned, and the
\* monitor still stores the size it had measured.
C7_Witness ==
  /\ last.op = "mutate"
  /\ Active(last.inst)
  /\ held.val # monitors[last.inst].size
  /\ monitors[last.inst].size = Live(last.inst)

\* C8: the dispose that disposes a monitor leaves it without listener key,
\* poll timer, window and size, and the host without its listener and timer;
\* a dispose of a disposed monitor changes nothing; no monitor ever
\* unlistens or clears its timer twice.
C8_DisposeIdempotent ==
  /\ [](\A m \in Existing : monitors[m].unlistens <= 1 /\ monitors[m].clears <= 1)
  /\ [][last'.op = "dispose" =>
          LET m == last'.inst
          IN  IF monitors[m].disposed_
                THEN UNCHANGED <<hostSize, windowInstanceMap_, monitors, listeners, intervals>>
                ELSE /\ monitors'[m].disposed_
                     /\ monitors'[m].listenerKey_ = Null
                     /\ monitors'[m].windowSizePollInterval = Null
                     /\ monitors'[m].window = NoWindow
                     /\ monitors'[m].size = NoSize
                     /\ monitors'[m].unlistens = 1
                     /\ \A v \in Windows : m \notin listeners'[v]
                     /\ m \notin intervals']_vars

\* C8 witness: dispose ran on a monitor already disposed, which had a
\* listener and a poll timer to release.
C8_Witness ==
  /\ last.op = "dispose" /\ last.outcome = "again"
  /\ monitors[last.inst].unlistens = 1
  /\ monitors[last.inst].clears = 1

\* C9: the registry holds no disposed monitor.
C9_RegistryHoldsNoDisposed ==
  \A w \in Windows :
    windowInstanceMap_[w] # Null => ~monitors[windowInstanceMap_[w]].disposed_

\* C10: a disposed monitor holds no size and no window, whatever check ran
\* on it since its disposal, and has dispatched no RESIZE since.
C10_DisposedStaysEmpty ==
  \A m \in Existing :
    monitors[m].disposed_ =>
      /\ monitors[m].size = NoSize
      /\ monitors[m].window = NoWindow
      /\ (last.op \in Checks /\ last.inst = m) => last.outcome = "same"

\* C11: no call of checkForSizeChange (by a caller, a native resize event
\* or a timer tick), getInstanceForWindow or removeInstanceForWindow ends
\* with an error, on a disposed monitor and for a window without monitor
\* too: a check ends having compared its measurement, getInstanceForWindow
\* returns the monitor registered for the window, removeInstanceForWindow
\* leaves the window without entry.
C11_NoErrorSurfaced ==
  /\ last.op \in Checks => last.outcome \in {"same", "differed"}
  /\ last.op = "getInstanceForWindow" =>
        /\ last.outcome \in {"found", "new", "renewed"}
        /\ last.inst \in Existing
        /\ windowInstanceMap_[last.win] = last.inst
  /\ last.op = "removeInstanceForWindow" =>
        /\ last.outcome \in {"removed", "absent"}
        /\ windowInstanceMap_[last.win] = Null

\* C11 witness: checkForSizeChange ran to its end on a disposed monitor,
\* while a removeInstanceForWindow had left a window without monitor.
C11_Witness ==
  /\ last.op = "checkForSizeChange" /\ last.outcome = "differed"
  /\ monitors[last.inst].disposed_
  /\ \E w \in Windows : hist[w].call = "remove" /\ windowInstanceMap_[w] = Null

\* The monitors getInstanceForWindow constructed for window w that have a
\* native resize listener on w or a running poll timer.
Subscribed(w) ==
  {m \in hist[w].undisposed : m \in listeners[w] \/ m \in intervals}

\* C12: the registry holds for each window no monitor or one monitor that
\* exists, and of the monitors getInstanceForWindow constructed for a window
\* at most one has a native resize listener on the window or a running poll
\* timer, whatever getInstanceForWindow, removeInstanceForWindow and dispose
\* calls were made.
C12_OneMonitorPerWindow ==
  \A w \in Windows :
    /\ windowInstanceMap_[w] \in {Null} \cup Existing
    /\ Cardinality(Subscribed(w)) <= 1
    /\ \A m \in Subscribed(w) : windowInstanceMap_[w] = m

\* C12 witness: getInstanceForWindow has constructed a second monitor for a
\* window after a removal, and that one alone listens and polls for it.
C12_Witness ==
  /\ last.op = "getInstanceForWindow" /\ last.outcome = "renewed"
  /\ Len(monitors) = 2
  /\ Subscribed(last.win) = {last.inst}
  /\ last.inst \in listeners[last.win]
  /\ last.inst \in intervals
  /\ \A m \in Existing \ {last.inst} : m \notin listeners[last.win]

\* C13 as stated: a monitor, once constructed, never again stores no size.
C13_NeverAbsent ==
  \A m \in Existing : monitors[m].size # NoSize

\* C13, for monitors not disposed: a monitor that is not disposed stores a
\* size, the one it measured last: construction stores the size the window
\* has, a check of the monitor stores the size the window has at the check,
\* and no other step (a change of the host's size among them) changes the
\* stored size; the dispose that disposes the monitor sets it to null.
C13_LastSizeIsLatestMeasurement ==
  /\ [](\A m \in Existing : Active(m) => monitors[m].size # NoSize)
  /\ [][/\ \A m \in Existing :
             Active(m) =>
               IF monitors'[m].disposed_ THEN monitors'[m].size = NoSize
               ELSE IF CheckOn(m) THEN monitors'[m].size = Live(m)
               ELSE monitors'[m].size = monitors[m].size
        /\ Len(monitors') > Len(monitors) =>
             monitors'[Len(monitors')].size = hostSize[last'.win]]_vars

\* C13 witness: the host changed the size of a window after an active
\* monitor of it had measured and stored another size than the initial one;
\* the monitor still stores that measurement.
C13_Witness ==
  /\ last.op = "hostResize"
  /\ \E m \in Existing :
        /\ Active(m)
        /\ monitors[m].dispatched = 1
        /\ monitors[m].size # InitialSize
        /\ monitors[m].size # Live(m)

\* C14: where the environment needs polling, a monitor has from its
\* construction to its disposal a running interval timer, and every tick of
\* a timer is a check of its monitor; while the host changes no viewport
\* size, no tick, native resize event or direct check makes a monitor that
\* is not disposed store another size or dispatch a RESIZE: it has
\* dispatched none.
C14_SteadyPollingIsSilent ==
  /\ [](\A m \in Existing : Active(m) =>
          /\ NeedsPolling(monitors[m].window) =>
                /\ monitors[m].windowSizePollInterval # Null
                /\ monitors[m].windowSizePollInterval \in intervals
          /\ monitors[m].dispatched = 0
          /\ monitors[m].size = Live(m))
  /\ [][last'.op \in {"pollTick", "handleResize_"} =>
          /\ Active(last'.inst)
          /\ last'.outcome = "same"
          /\ monitors' = monitors]_vars

\* C14 witness: a timer tick ran the check of a polling monitor whose window
\* has another size than the other window, and the monitor has dispatched
\* nothing.
C14_Witness ==
  /\ last.op = "pollTick" /\ last.outcome = "same"
  /\ Active(last.inst)
  /\ NeedsPolling(monitors[last.inst].window)
  /\ monitors[last.inst].dispatched = 0
  /\ hostSize["top"] # hostSize["frame"]

\* C15: a check of a monitor that is not disposed and measures another size
\* than the stored one stores the measurement before it dispatches: the
\* size getSize() gives a subscriber's handler during the dispatch is the
\* measurement, the size the monitor stores after the check, and not the
\* size stored before it; the event handed to the handler holds its type and
\* its target, no size.
C15_StoredBeforeDispatch ==
  [][\A m \in Existing :
       (CheckOn(m) /\ Active(m) /\ last'.outcome = "differed") =>
          /\ monitors'[m].size = Live(m)
          /\ monitors'[m].dispatched = monitors[m].dispatched + 1
          /\ DOMAIN ResizeEvent(m) = {"type", "target"}
          /\ last'.seen # NoSize =>
                /\ last'.seen = Live(m)
                /\ last'.seen = monitors'[m].size
                /\ last'.seen # monitors[m].size]_vars

\* C15 witness: the handler of a subscriber called getSize() during the
\* dispatch of a native resize event's check and received the new size of
\* the window.
C15_Witness ==
  /\ last.op = "handleResize_" /\ last.outcome = "differed"
  /\ Active(last.inst)
  /\ last.seen = Live(last.inst)
  /\ last.seen # InitialSize

\* C18: a check of a monitor that is not disposed dispatches one RESIZE when
\* it measures another size than the stored one and none otherwise, also
\* when the subscriber's handler calls checkForSizeChange on the monitor
\* (directly or through a resize event it fires) during the dispatch: the
\* call below the dispatch measures the size just stored, dispatches
\* nothing and calls no handler, so no further call follows it.
C18_NoFeedbackLoop ==
  [][\A m \in Existing :
       (CheckOn(m) /\ Active(m)) =>
          /\ monitors'[m].dispatched =
               monitors[m].dispatched + (IF Unlike(Live(m), monitors[m].size) THEN 1 ELSE 0)
          /\ last'.nested <= 1
          /\ last'.nested < MaxDepth
          /\ last'.nested = 1 =>
                /\ Unlike(Live(m), monitors[m].size)
                /\ monitors'[m].size = Live(m)]_vars

\* C18 witness: the host changed a window's size twice; the check after the
\* second change dispatched, the handler called checkForSizeChange during
\* the dispatch, and the monitor has dispatched two RESIZE events.
C18_Witness ==
  /\ last.op \in Checks /\ last.outcome = "differed"
  /\ last.nested = 1
  /\ Active(last.inst)
  /\ monitors[last.inst].dispatched = 2
  /\ monitors[last.inst].differing = 2

\* The digits at the end of str.
RECURSIVE TrailingDigits(_)
TrailingDigits(str) ==
  IF str = << >> \/ str[Len(str)] \notin Digits THEN << >>
  ELSE TrailingDigits(SubSeq(str, 1, Len(str) - 1)) \o <<str[Len(str)]>>
HasDigit(str) == \E i \in 1..Len(str) : str[i] \in Digits
\* str is a part without digit followed by a run of digits.
PrefixThenDigits(str) ==
  /\ TrailingDigits(str) # << >>
  /\ ~HasDigit(SubSeq(str, 1, Len(str) - Len(TrailingDigits(str))))
\* The last n characters of str.
LastOf(str, n) == SubSeq(str, Len(str) - n + 1, Len(str))

\* C16: getNumericIndex(id, w) of an identifier that is a part without
\* digit followed by a run of digits is the number its last min(w, length of
\* the run) digits form, all digits of the run when w is left out;
\* get2DigitIndex(id) is that with w = 2; both are NaN for an identifier
\* without digit.
C16_NumericSuffix ==
  last.op \in {"getNumericIndex", "get2DigitIndex"} =>
    LET run == TrailingDigits(last.str)
        n   == IF last.arg = Omitted \/ Len(run) <= last.arg
                 THEN Len(run) ELSE last.arg
    IN  /\ PrefixThenDigits(last.str) => last.result = ToNumber(LastOf(run, n))
        /\ ~HasDigit(last.str) => last.result = NaN

\* p is at the beginning of str.
StartsWith(str, p) == Len(p) <= Len(str) /\ SubSeq(str, 1, Len(p)) = p
\* str has somewhere the characters of p with a digit right after them.
HasPrefixThenDigit(str, p) ==
  \E i \in 1..Len(str) :
    /\ i + Len(p) <= Len(str)
    /\ SubSeq(str, i, i + Len(p) - 1) = p
    /\ str[i + Len(p)] \in Digits

\* C17: getIdWithoutPrefix(p + s, p) is s; getNumericIndexWithoutPrefix(
\* p + d, p) is the number the digits d are, for d not empty; and
\* getNumericIndexWithoutPrefix(x, p) is NaN when x has nowhere the
\* characters of p with a digit right after them.
C17_PrefixRoundTrip ==
  /\ (last.op = "getIdWithoutPrefix" /\ StartsWith(last.str, last.arg)) =>
        last.arg \o last.result = last.str
  /\ last.op = "getNumericIndexWithoutPrefix" =>
        LET d == SubSeq(last.str, Len(last.arg) + 1, Len(last.str))
        IN  /\ (StartsWith(last.str, last.arg) /\ d # << >>
                  /\ \A k \in 1..Len(d) : d[k] \in Digits)
                 => last.result = ToNumber(d)
            /\ ~HasPrefixThenDigit(last.str, last.arg) => last.result = NaN

\* The monitors of window w: those that watch it and the one the registry
\* holds for it.
MonitorsOf(w) ==
  {m \in Existing : monitors[m].window = w \/ windowInstanceMap_[w] = m}
\* This step is an operation on window w: a registry call for it, a change
\* of its size by the host, or a check of one of its monitors.
OperationOn(w) ==
  \/ last'.op \in {"getInstanceForWindow", "removeInstanceForWindow"} /\ last'.win = w
  \/ last'.op = "hostResize" /\ hostSize'[w] # hostSize[w]
  \/ last'.op \in Checks /\ last'.inst \in MonitorsOf(w)

\* C19: getInstanceForWindow and removeInstanceForWindow for a window, a
\* change of its size and a check of one of its monitors leave, for every
\* other window, the registry entry, the resize listeners, and of each of
\* its monitors the fields (size, listener key, timer handle, disposed
\* flag), the running timer and the number of RESIZE events dispatched.
C19_WindowsAreIsolated ==
  [][\A w1, w2 \in Windows :
       (w1 # w2 /\ OperationOn(w1)) =>
          /\ windowInstanceMap_'[w2] = windowInstanceMap_[w2]
          /\ listeners'[w2] = listeners[w2]
          /\ \A m \in MonitorsOf(w2) :
                /\ monitors'[m] = monitors[m]
                /\ (m \in intervals') = (m \in intervals)]_vars

\* C19 witness: removeInstanceForWindow disposed the monitor of one window
\* while the registry's monitor of the other window, which has dispatched
\* a RESIZE, listens and polls.
C19_Witness ==
  /\ last.op = "removeInstanceForWindow" /\ last.outcome = "removed"
  /\ \E w2 \in Windows \ {last.win} :
        LET m == windowInstanceMap_[w2]
        IN  /\ m # Null
            /\ Active(m)
            /\ monitors[m].dispatched = 1
            /\ m \in listeners[w2]
            /\ m \in intervals
====
